---------------------------- MODULE Spec2Model ----------------------------
(***************************************************************************)
(* Model of server/index.js of the Codex Sales app: the record normalizer, *)
(* the local summarizer, the POST /api/analyze handler with its audit log  *)
(* and the GET /api/contexts handler.                                      *)
(*                                                                         *)
(* JavaScript values are tagged records: t is the typeof-like tag.         *)
(* Objects carry a function f whose DOMAIN is the set of keys the object   *)
(* has, so an absent key and a key holding null or "" are different.       *)
(***************************************************************************)
EXTENDS Integers, Sequences, FiniteSets, TLC

VARIABLES
    nData,      \* normalizeRecords: the argument of the call
    nResult,    \* normalizeRecords: what the call gave (returned value or throw)
    nPc,        \* "ready" before the call, "called" after it ("off": not in use)
    sRecords,   \* summarizeLocally: the records argument
    sFilters,   \* summarizeLocally: the filters argument
    sResult,    \* summarizeLocally: the text returned
    sPc,        \* "ready" before the call, "called" after it ("off": not in use)
    env,        \* which environment variables are set (fixed at start-up)
    pc,         \* POST /api/analyze: where the handler of the current request is
    body,       \* req.body of the current request
    summary,    \* the local summary computed for it (503 path)
    aiRequest,  \* the chat completion request sent to the provider
    aiOutcome,  \* what the provider call gave
    logCalls,   \* the arguments of the calls of logAnalysis made for it
    logOutcome, \* what the datastore did with the last insert
    logRows,    \* the rows of analysis_logs inserted for it
    sent,       \* the responses the handler sent, or tried to send, for it
    prev,       \* the previous finished request: its body, outcomes and responses
    cPc,        \* GET /api/contexts: where the handler of the current request is
    cFetch,     \* what the datastore read gave for it
    cSent,      \* the responses the handler sent for it
    cPrev       \* the previous finished request: what the read gave, and the response

nvars == <<nData, nResult, nPc>>
svars == <<sRecords, sFilters, sResult, sPc>>
avars == <<pc, body, summary, aiRequest, aiOutcome, logCalls, logOutcome, logRows, sent, prev>>
cvars == <<cPc, cFetch, cSent, cPrev>>

---------------------------------------------------------------------------
(* JavaScript values *)

Undefined == [t |-> "undefined"]
Null      == [t |-> "null"]
Num(i)    == [t |-> "number", k |-> "finite", n |-> i]
Infinity  == [t |-> "number", k |-> "Infinity", n |-> 0]
NaN       == [t |-> "number", k |-> "NaN", n |-> 0]
Str(x)    == [t |-> "string", s |-> x]
Arr(xs)   == [t |-> "array", items |-> xs]
Obj(g)    == [t |-> "object", f |-> g]
EmptyObj  == [t |-> "object", f |-> <<>>]

IsNaN(v) == v.t = "number" /\ v.k = "NaN"

\* ToBoolean: undefined, null, 0, NaN and "" are falsy, everything else truthy.
Truthy(v) ==
    CASE v.t = "undefined" -> FALSE
      [] v.t = "null"      -> FALSE
      [] v.t = "number"    -> ~(v.k = "NaN") /\ ~(v.k = "finite" /\ v.n = 0)
      [] v.t = "string"    -> v.s # ""
      [] OTHER             -> TRUE

\* a || b
Or(a, b) == IF Truthy(a) THEN a ELSE b

\* Number(s) for the string literals the inputs below use.
StringToNumber(s) ==
    CASE s = ""      -> Num(0)
      [] s = "7"     -> Num(7)
      [] s = "1e999" -> Infinity
      [] OTHER       -> NaN

\* Number(v)
ToNumber(v) ==
    CASE v.t = "number"    -> v
      [] v.t = "string"    -> StringToNumber(v.s)
      [] v.t = "null"      -> Num(0)
      [] v.t = "undefined" -> NaN
      [] v.t = "array"     -> IF v.items = <<>> THEN Num(0)
                              ELSE IF Len(v.items) = 1 /\ v.items[1].t = "number"
                                   THEN v.items[1] ELSE NaN
      [] OTHER             -> NaN

\* item.key.  Reading a property of null or undefined throws a TypeError,
\* which the caller sees as "TypeError"; a primitive has none of the keys.
CanRead(item) == item.t \notin {"null", "undefined"}

Get(item, key) ==
    IF item.t = "object" /\ key \in DOMAIN item.f THEN item.f[key] ELSE Undefined

---------------------------------------------------------------------------
(* normalizeRecords *)

\* JSON.parse on the texts the inputs use: ok = FALSE is a SyntaxError.
JSONparse(text) ==
    CASE text = "[]"     -> [ok |-> TRUE, value |-> Arr(<<>>)]
      [] text = "null"   -> [ok |-> TRUE, value |-> Null]
      [] text = "5"      -> [ok |-> TRUE, value |-> Num(5)]
      [] text = "[null]" -> [ok |-> TRUE, value |-> Arr(<<Null>>)]
      [] text = "[{\"account\":\"A\",\"value\":5}]" ->
            [ok |-> TRUE, value |-> Arr(<<Obj([account |-> Str("A"), value |-> Num(5)])>>)]
      [] text = "{\"customer\":\"X\",\"amount\":100}" ->
            [ok |-> TRUE, value |-> Obj([customer |-> Str("X"), amount |-> Num(100)])]
      [] OTHER           -> [ok |-> FALSE, value |-> Undefined]

\* The raw text.  A string argument is kept as it is; JSON.stringify(data,
\* null, 2) is kept symbolic, as the text that serializes data.
RawLiteral(text) == [kind |-> "literal", text |-> text]
JSONstringify(data) == [kind |-> "json", of |-> data]
RawIsEmpty(raw) == raw.kind = "literal" /\ raw.text = ""

\* Lines 71-78: the record one list element is mapped to.  First the faulty
\* variant that reads account before customer and value before amount.
MapItemAccountFirst(item) ==
    [customer |-> Or(Or(Get(item, "account"), Get(item, "customer")), Str("Unknown Customer")),
     brand    |-> Or(Or(Get(item, "brand"), Get(item, "category")), Str("Unknown Brand")),
     season   |-> Or(Or(Or(Get(item, "season"), Get(item, "quarter")), Get(item, "period")),
                     Str("Unspecified")),
     stage    |-> Or(Or(Get(item, "stage"), Get(item, "pipelineStage")), Str("unspecified")),
     amount   |-> ToNumber(Or(Or(Or(Or(Get(item, "value"), Get(item, "amount")),
                                    Get(item, "revenue")), Get(item, "total")), Num(0))),
     notes    |-> Or(Or(Get(item, "notes"), Get(item, "comment")), Str(""))]

MapItem(item) ==
    [customer |-> Or(Or(Get(item, "customer"), Get(item, "account")), Str("Unknown Customer")),
     brand    |-> Or(Or(Get(item, "brand"), Get(item, "category")), Str("Unknown Brand")),
     season   |-> Or(Or(Or(Get(item, "season"), Get(item, "quarter")), Get(item, "period")),
                     Str("Unspecified")),
     stage    |-> Or(Or(Get(item, "stage"), Get(item, "pipelineStage")), Str("unspecified")),
     amount   |-> ToNumber(Or(Or(Or(Or(Get(item, "amount"), Get(item, "value")),
                                    Get(item, "revenue")), Get(item, "total")), Num(0))),
     notes    |-> Or(Or(Get(item, "notes"), Get(item, "comment")), Str(""))]

\* Line 79: the filter that follows the map.  First the faulty variant that
\* keeps every record.
KeepAnyAmount(r) == TRUE

KeepRecord(r) == ~IsNaN(r.amount)

Returned(raw, records) == [threw |-> FALSE, raw |-> raw, records |-> records]
Threw(what) == [threw |-> TRUE, error |-> what]

\* Lines 54-67: the parsed value and the raw text of a truthy argument.
ParsedOf(data) ==
    CASE data.t = "string" ->
            IF JSONparse(data.s).ok THEN JSONparse(data.s).value ELSE Arr(<<>>)
      [] data.t = "array"  -> data
      [] data.t = "object" -> Arr(<<data>>)
      [] OTHER             -> Arr(<<>>)

RawOf(data) ==
    CASE data.t = "string" -> RawLiteral(data.s)
      [] data.t = "array"  -> JSONstringify(data)
      [] data.t = "object" -> JSONstringify(data)
      [] OTHER             -> RawLiteral("")

normalizeRecords(data) ==
    IF ~Truthy(data) THEN Returned(RawLiteral(""), <<>>)
    ELSE LET parsed == ParsedOf(data)
         IN  IF parsed.t # "array" THEN Returned(RawOf(data), <<>>)
             ELSE IF \E i \in 1..Len(parsed.items) : ~CanRead(parsed.items[i])
                  THEN Threw("TypeError")
                  ELSE Returned(RawOf(data),
                                SelectSeq([i \in 1..Len(parsed.items) |-> MapItem(parsed.items[i])],
                                          KeepRecord))

---------------------------------------------------------------------------
(* Inputs of normalizeRecords *)

MaxItems == 2

\* Optional keys: each group is a set of objects' key-value functions.
CustomerFields ==
    { <<>>, [customer |-> Str("X")], [account |-> Str("A")],
      [customer |-> Str("X"), account |-> Str("A")],
      [customer |-> Str(""), account |-> Str("A")],
      [customer |-> Null, account |-> Str("A")],
      [customer |-> Str("")] }

AmountFields ==
    { <<>>, [amount |-> Num(5)], [value |-> Num(5)], [revenue |-> Num(8)], [total |-> Num(9)],
      [amount |-> Num(0)], [amount |-> Num(0), value |-> Num(5)],
      [amount |-> Num(3), value |-> Num(5)],
      [value |-> Num(5), total |-> Num(9)], [revenue |-> Num(8), total |-> Num(9)],
      [amount |-> Str("7")], [amount |-> Str("abc")], [amount |-> Str("abc"), value |-> Num(5)],
      [amount |-> Null], [amount |-> Str("")], [amount |-> Infinity],
      [amount |-> Str("1e999")], [amount |-> EmptyObj], [amount |-> Num(-4)],
      [total |-> Str("abc")] }

OtherFields ==
    { b @@ s @@ g @@ c :
        b \in { <<>>, [brand |-> Str("B")], [category |-> Str("C")],
                [brand |-> Str("B"), category |-> Str("C")] },
        s \in { <<>>, [season |-> Str("Spring")], [quarter |-> Str("Q1")],
                [period |-> Str("H1")], [quarter |-> Str("Q1"), period |-> Str("H1")],
                [season |-> Str("Spring"), period |-> Str("H1")] },
        g \in { <<>>, [stage |-> Str("Proposal")], [pipelineStage |-> Str("Won")],
                [stage |-> Str("Proposal"), pipelineStage |-> Str("Won")] },
        c \in { <<>>, [notes |-> Str("n")], [comment |-> Str("c")],
                [notes |-> Str("n"), comment |-> Str("c")] } }

ObjectItems ==
    { Obj(c @@ a) : c \in CustomerFields, a \in AmountFields }
      \cup { Obj(o) : o \in OtherFields }

\* The elements longer lists are built from: objects, null and primitives.
ListItems ==
    { Obj([account |-> Str("A"), value |-> Num(5)]),
      Obj([customer |-> Str("X"), amount |-> Str("abc")]),
      Obj([customer |-> Str("Y")]),
      Null, Num(1), Str("x") }

StringInputs ==
    { Str(""), Str("not json"), Str("customer,amount\nX,100"), Str("[]"), Str("null"),
      Str("5"), Str("[null]"), Str("[{\"account\":\"A\",\"value\":5}]"),
      Str("{\"customer\":\"X\",\"amount\":100}") }

NormalizeInputs ==
    {Undefined, Null, Num(0), Num(5)}
      \cup StringInputs
      \cup ObjectItems
      \cup { Arr(<<it>>) : it \in ObjectItems }
      \cup UNION { { Arr(xs) : xs \in [1..n -> ListItems] } : n \in 0..MaxItems }

NInit ==
    /\ nData \in NormalizeInputs
    /\ nResult = Undefined
    /\ nPc = "ready"

NCall ==
    /\ nPc = "ready"
    /\ nResult' = normalizeRecords(nData)
    /\ nPc' = "called"
    /\ UNCHANGED nData

NOff == nData = Undefined /\ nResult = Undefined /\ nPc = "off"


---------------------------------------------------------------------------
(* Strings and arithmetic of JavaScript values *)

Digits == <<"0", "1", "2", "3", "4", "5", "6", "7", "8", "9">>

RECURSIVE NatToString(_)
NatToString(n) ==
    IF n < 10 THEN Digits[n + 1] ELSE NatToString(n \div 10) \o Digits[(n % 10) + 1]

\* The three digits of a group after the first, zero padded.
ThreeDigits(n) ==
    Digits[(n \div 100) + 1] \o Digits[((n \div 10) % 10) + 1] \o Digits[(n % 10) + 1]

RECURSIVE NatToLocaleString(_)
NatToLocaleString(n) ==
    IF n < 1000 THEN NatToString(n)
    ELSE NatToLocaleString(n \div 1000) \o "," \o ThreeDigits(n % 1000)

\* String(v), as a template literal or a string concatenation applies it.
StringOf(v) ==
    CASE v.t = "string"    -> v.s
      [] v.t = "function"  -> v.s
      [] v.t = "number"    ->
            IF v.k = "finite"
            THEN IF v.n < 0 THEN "-" \o NatToString(-v.n) ELSE NatToString(v.n)
            ELSE v.k
      [] v.t = "null"      -> "null"
      [] v.t = "undefined" -> "undefined"
      [] OTHER             -> "[object Object]"

\* value.toLocaleString() in the default en-US locale: digits grouped in
\* threes; a string gives itself.  Infinity gives the one-character infinity
\* sign, written here by its code point.
InfinitySign == "<U+221E>"

ToLocaleString(v) ==
    CASE v.t = "number" ->
            IF v.k = "finite"
            THEN IF v.n < 0 THEN "-" \o NatToLocaleString(-v.n) ELSE NatToLocaleString(v.n)
            ELSE IF v.k = "Infinity" THEN InfinitySign ELSE "NaN"
      [] OTHER -> StringOf(v)

\* a + b on numbers.
AddNumbers(a, b) ==
    IF a.k = "NaN" \/ b.k = "NaN" THEN NaN
    ELSE IF a.k = "Infinity" \/ b.k = "Infinity" THEN Infinity
    ELSE Num(a.n + b.n)

\* a + b: a string concatenation as soon as one operand's primitive is a
\* string (a function's and an object's are), an addition otherwise.
Plus(a, b) ==
    IF a.t \in {"string", "function", "object", "array"}
         \/ b.t \in {"string", "function", "object", "array"}
    THEN Str(StringOf(a) \o StringOf(b))
    ELSE AddNumbers(ToNumber(a), ToNumber(b))

\* The sign of b - a as Array.prototype.sort reads it: positive, or not
\* (negative, zero and NaN all leave the two in place).
DifferencePositive(b, a) ==
    LET x == ToNumber(b)
        y == ToNumber(a)
    IN  IF x.k = "NaN" \/ y.k = "NaN" THEN FALSE
        ELSE IF x.k = "Infinity" THEN y.k # "Infinity"
        ELSE IF y.k = "Infinity" THEN FALSE
        ELSE x.n - y.n > 0

RECURSIVE Join(_, _)
Join(strs, sep) ==
    IF strs = <<>> THEN ""
    ELSE IF Len(strs) = 1 THEN strs[1]
    ELSE strs[1] \o sep \o Join(Tail(strs), sep)

---------------------------------------------------------------------------
(* summarizeLocally *)

\* What a fresh object literal {} inherits from Object.prototype: reading one
\* of these keys before it was assigned gives a built-in function.
NativeFunction(name) == [t |-> "function", s |-> "function " \o name \o "() { [native code] }"]

ObjectPrototypeFunctions ==
    [constructor |-> NativeFunction("Object"), toString |-> NativeFunction("toString"),
     valueOf |-> NativeFunction("valueOf"), hasOwnProperty |-> NativeFunction("hasOwnProperty")]

\* An object used as a map is a sequence of <<key, value>> entries in the
\* order the keys were first assigned (the order Object.entries gives for
\* keys that are not array indices).
HasOwn(acc, k) == \E i \in 1..Len(acc) : acc[i][1] = k

\* acc[k]
Lookup(acc, k) ==
    IF HasOwn(acc, k) THEN acc[CHOOSE i \in 1..Len(acc) : acc[i][1] = k][2]
    ELSE IF k \in DOMAIN ObjectPrototypeFunctions THEN ObjectPrototypeFunctions[k]
    ELSE IF k = "__proto__" THEN EmptyObj
    ELSE Undefined

\* acc[k] = v.  Assigning a primitive to __proto__ changes nothing.
Assign(acc, k, v) ==
    IF HasOwn(acc, k) THEN [i \in 1..Len(acc) |-> IF acc[i][1] = k THEN <<k, v>> ELSE acc[i]]
    ELSE IF k = "__proto__" THEN acc
    ELSE Append(acc, <<k, v>>)

\* Lines 92-98.
RECURSIVE GroupInto(_, _, _)
GroupInto(acc, records, key) ==
    IF records = <<>> THEN acc
    ELSE LET r == Head(records)
             k == StringOf(Or(r[key], Str("Unspecified")))
         IN  GroupInto(Assign(acc, k, Plus(Or(Lookup(acc, k), Num(0)), Or(r.amount, Num(0)))),
                       Tail(records), key)

groupBy(records, key) == GroupInto(<<>>, records, key)

\* Line 90.
RECURSIVE SumAmounts(_, _)
SumAmounts(sum, records) ==
    IF records = <<>> THEN sum
    ELSE SumAmounts(Plus(sum, Or(Head(records).amount, Num(0))), Tail(records))

\* Line 106: the stable sort by (a, b) => b[1] - a[1], as an insertion sort:
\* an entry moves in front of the entries before it that the comparison puts
\* after it.
InsertEntry(sorted, x) ==
    LET p == CHOOSE i \in 0..Len(sorted) :
                /\ \A j \in (i + 1)..Len(sorted) : DifferencePositive(x[2], sorted[j][2])
                /\ (i = 0 \/ ~DifferencePositive(x[2], sorted[i][2]))
    IN  SubSeq(sorted, 1, p) \o <<x>> \o SubSeq(sorted, p + 1, Len(sorted))

RECURSIVE SortEntries(_)
SortEntries(entries) ==
    IF entries = <<>> THEN <<>>
    ELSE InsertEntry(SortEntries(SubSeq(entries, 1, Len(entries) - 1)), entries[Len(entries)])

TopCount == 3

\* Line 107: slice(0, 3).
SliceTop(entries) == SubSeq(entries, 1, IF Len(entries) < TopCount THEN Len(entries) ELSE TopCount)

\* Lines 104-109.
top(obj) ==
    LET shown == SliceTop(SortEntries(obj))
    IN  Join([i \in 1..Len(shown) |-> shown[i][1] \o ": $" \o ToLocaleString(shown[i][2])], "; ")

\* Filters are the entries of the filters object, in key order; null and
\* undefined stand for no object.
FilterEntries(filters) == IF filters.t = "entries" THEN filters.e ELSE <<>>

FiltersOf(es) == [t |-> "entries", e |-> es]

\* Lines 111-114 (sep ", ") and 135-138 (sep "; ").
filterSummary(filters, sep) ==
    LET set == SelectSeq(FilterEntries(filters), LAMBDA e : Truthy(e[2]))
    IN  Join([i \in 1..Len(set) |-> set[i][1] \o ": " \o StringOf(set[i][2])], sep)

NoRecordsSentence == "No structured sales records were provided to summarize."
LocalNotice == "AI provider is not configured. Showing a quick local summary instead."

summarizeLocally(records, filters) ==
    IF records = <<>> THEN NoRecordsSentence
    ELSE LET total == SumAmounts(Num(0), records)
             byCustomer == groupBy(records, "customer")
             byBrand == groupBy(records, "brand")
             bySeason == groupBy(records, "season")
             fs == filterSummary(filters, ", ")
             parts ==
                <<LocalNotice,
                  IF fs # "" THEN "Applied filters -> " \o fs \o "." ELSE "No filters applied.",
                  "Total pipeline value: $" \o ToLocaleString(total) \o ".",
                  IF byCustomer # <<>> THEN "Top customers: " \o top(byCustomer) \o "." ELSE "",
                  IF byBrand # <<>> THEN "Top brands: " \o top(byBrand) \o "." ELSE "",
                  IF bySeason # <<>> THEN "Top seasons/periods: " \o top(bySeason) \o "." ELSE "">>
         IN  Join(SelectSeq(parts, LAMBDA x : x # ""), " ")

---------------------------------------------------------------------------
(* Inputs of summarizeLocally *)

MaxRecords == 4

Record(c, b, s, a) ==
    [customer |-> Str(c), brand |-> Str(b), season |-> Str(s), stage |-> Str("unspecified"),
     amount |-> Num(a), notes |-> Str("")]

SummaryCustomers == {"X", "Y", "Z", "W", "constructor"}

SummaryRecords ==
    { Record(c, "ActiveLife", "Spring", a) : c \in SummaryCustomers, a \in {100, 300} }
      \cup { Record("X", "UrbanFlex", "Holiday", 1200), Record("Y", "UrbanFlex", "Spring", 0) }

FilterInputs ==
    { Null, FiltersOf(<<>>),
      FiltersOf(<<<<"customer", Str("X")>>, <<"brand", Str("")>>, <<"season", Str("Spring")>>>>) }

SInit ==
    /\ sRecords \in UNION { [1..n -> SummaryRecords] : n \in 0..MaxRecords }
    /\ sFilters \in FilterInputs
    /\ sResult = ""
    /\ sPc = "ready"

SOff == sRecords = <<>> /\ sFilters = Null /\ sResult = "" /\ sPc = "off"

SCall ==
    /\ sPc = "ready"
    /\ sResult' = summarizeLocally(sRecords, sFilters)
    /\ sPc' = "called"
    /\ UNCHANGED <<sRecords, sFilters>>

---------------------------------------------------------------------------
(* Properties of summarizeLocally *)

\* The groups of the records under a key, and the sum of a group's amounts.
GroupNames(records, key) == { records[i][key].s : i \in 1..Len(records) }

RECURSIVE SumOver(_, _, _)
SumOver(records, key, name) ==
    IF records = <<>> THEN 0
    ELSE (IF Head(records)[key].s = name THEN Head(records).amount.n ELSE 0)
            + SumOver(Tail(records), key, name)

RECURSIVE TotalOf(_)
TotalOf(records) ==
    IF records = <<>> THEN 0 ELSE Head(records).amount.n + TotalOf(Tail(records))

Min(a, b) == IF a < b THEN a ELSE b

\* The listings the claim allows for a key: min(3, number of groups) distinct
\* groups, in descending order of their sums, none smaller than a group left
\* out, each shown as "name: $sum".
AllowedTops(records, key) ==
    LET names == GroupNames(records, key)
        n == Min(TopCount, Cardinality(names))
        sum(g) == SumOver(records, key, g)
    IN  { Join([i \in 1..n |-> g[i] \o ": $" \o ToLocaleString(Num(sum(g[i])))], "; ") :
            g \in { h \in [1..n -> names] :
                      /\ \A i, j \in 1..n : i < j => h[i] # h[j] /\ sum(h[i]) >= sum(h[j])
                      /\ \A x \in names : (\A i \in 1..n : h[i] # x)
                                             => \A i \in 1..n : sum(h[i]) >= sum(x) } }

\* C8: for a non-empty record list the summary gives as total the sum of the
\* amounts and, for customer, brand and season, at most 3 groups, those with
\* the largest summed amounts, each with its sum, in descending order; for an
\* empty list it is the fixed sentence whatever the filters.
C8_TotalsAndTopGroups ==
    sPc = "called" =>
        IF sRecords = <<>> THEN sResult = NoRecordsSentence
        ELSE LET fs == filterSummary(sFilters, ", ")
             IN  \E tc \in AllowedTops(sRecords, "customer"),
                    tb \in AllowedTops(sRecords, "brand"),
                    ts \in AllowedTops(sRecords, "season") :
                    sResult = Join(<<LocalNotice,
                                     IF fs # "" THEN "Applied filters -> " \o fs \o "."
                                     ELSE "No filters applied.",
                                     "Total pipeline value: $"
                                        \o ToLocaleString(Num(TotalOf(sRecords))) \o ".",
                                     "Top customers: " \o tc \o ".",
                                     "Top brands: " \o tb \o ".",
                                     "Top seasons/periods: " \o ts \o ".">>, " ")

\* C8 on the record lists none of whose group names is a key that a fresh
\* object inherits (the lists on which the summary is as the claim says).
C8_OrdinaryNames ==
    (\A i \in 1..Len(sRecords) : sRecords[i].customer.s # "constructor")
        => C8_TotalsAndTopGroups

---------------------------------------------------------------------------
(* Properties of normalizeRecords *)

AmountAliases   == <<"amount", "value", "revenue", "total">>
CustomerAliases == <<"customer", "account">>
BrandAliases    == <<"brand", "category">>
SeasonAliases   == <<"season", "quarter", "period">>
StageAliases    == <<"stage", "pipelineStage">>
NotesAliases    == <<"notes", "comment">>

\* The value of the first alias, in the order given, that holds a truthy
\* value; the default when none does.
FirstTruthy(item, aliases, default) ==
    IF \E i \in 1..Len(aliases) : Truthy(Get(item, aliases[i]))
    THEN Get(item, aliases[CHOOSE i \in 1..Len(aliases) :
                             /\ Truthy(Get(item, aliases[i]))
                             /\ \A j \in 1..(i - 1) : ~Truthy(Get(item, aliases[j]))])
    ELSE default

\* A key is present when the element has it with a value other than null.
Present(item, key) ==
    item.t = "object" /\ key \in DOMAIN item.f /\ item.f[key].t \notin {"null", "undefined"}

\* The value of the first alias that is present; the default when none is.
FirstPresent(item, aliases, default) ==
    IF \E i \in 1..Len(aliases) : Present(item, aliases[i])
    THEN Get(item, aliases[CHOOSE i \in 1..Len(aliases) :
                             /\ Present(item, aliases[i])
                             /\ \A j \in 1..(i - 1) : ~Present(item, aliases[j])])
    ELSE default

\* A value that reads as a number: a number other than NaN, or a non-empty
\* numeric string.
NumericValue(v) ==
    \/ v.t = "number" /\ v.k # "NaN"
    \/ v.t = "string" /\ v.s # "" /\ ~IsNaN(StringToNumber(v.s))

\* The element has no amount-bearing field that is present and numeric.
NoNumericAmount(item) ==
    \A i \in 1..Len(AmountAliases) :
        ~(Present(item, AmountAliases[i]) /\ NumericValue(Get(item, AmountAliases[i])))

\* The elements of the list the call maps (empty when there is none).
NItems == IF Truthy(nData) /\ ParsedOf(nData).t = "array" THEN ParsedOf(nData).items ELSE <<>>

NReturned == nPc = "called" /\ ~nResult.threw

\* The amount the aliasing gives an element, and the indices of the elements
\* whose amount is not NaN, in order.
CoercedAmount(item) == ToNumber(FirstTruthy(item, AmountAliases, Num(0)))

KeptIndices(items) ==
    SelectSeq([i \in 1..Len(items) |-> i], LAMBDA i : ~IsNaN(CoercedAmount(items[i])))

CountIn(seq, P(_)) == Cardinality({i \in 1..Len(seq) : P(seq[i])})

\* C3 as stated: every output record has a finite, non-NaN amount, and an
\* element whose amount-bearing fields are all absent or non-numeric is
\* excluded from the output (so at most the other elements remain).
C3_AbsentAmountExcluded ==
    NReturned =>
        /\ \A j \in 1..Len(nResult.records) :
              nResult.records[j].amount.t = "number" /\ nResult.records[j].amount.k = "finite"
        /\ Len(nResult.records) <= CountIn(NItems, LAMBDA it : ~NoNumericAmount(it))

\* C3 as amended: every output record's amount is a number other than NaN
\* (Infinity included); an element is excluded exactly when the first truthy
\* value among amount, value, revenue, total coerces to NaN; and an element
\* none of whose amount-bearing fields is truthy is kept with amount 0.
C3_NoNaNAmount ==
    NReturned =>
        /\ \A j \in 1..Len(nResult.records) :
              nResult.records[j].amount.t = "number" /\ nResult.records[j].amount.k # "NaN"
        /\ Len(nResult.records) = CountIn(NItems, LAMBDA it : ~IsNaN(CoercedAmount(it)))
        /\ CountIn(nResult.records, LAMBDA r : r.amount = Num(0))
              >= CountIn(NItems, LAMBDA it :
                    \A i \in 1..Len(AmountAliases) : ~Truthy(Get(it, AmountAliases[i])))

\* C3 witness: a list with one element whose amount is the text "abc" and one
\* with no amount-bearing field at all; the first is dropped, the second is
\* kept with amount 0.
C3_Witness ==
    /\ NReturned
    /\ nData = Arr(<<Obj([customer |-> Str("X"), amount |-> Str("abc")]),
                     Obj([customer |-> Str("Y")])>>)
    /\ Len(nResult.records) = 1
    /\ nResult.records[1].customer = Str("Y")
    /\ nResult.records[1].amount = Num(0)

\* C4 as stated: normalizeRecords never throws, whatever the input, and a
\* string that does not parse to a list gives an empty record list.
C4_NormalizeNeverThrows ==
    nPc = "called" =>
        /\ ~nResult.threw
        /\ (nData.t = "string" /\ ~(JSONparse(nData.s).ok /\ JSONparse(nData.s).value.t = "array"))
              => nResult.records = <<>>

ExpectedRecord(item, First(_, _, _)) ==
    [customer |-> First(item, CustomerAliases, Str("Unknown Customer")),
     brand    |-> First(item, BrandAliases, Str("Unknown Brand")),
     season   |-> First(item, SeasonAliases, Str("Unspecified")),
     stage    |-> First(item, StageAliases, Str("unspecified")),
     amount   |-> ToNumber(First(item, AmountAliases, Num(0))),
     notes    |-> First(item, NotesAliases, Str(""))]

\* C9 as stated: each field is the first PRESENT value among its aliases, the
\* default being used only when no alias is present (checked on the calls that
\* drop no element, where output record i comes from element i).
C9_FirstPresentAlias ==
    (NReturned /\ Len(nResult.records) = Len(NItems)) =>
        \A i \in 1..Len(NItems) :
            nResult.records[i] = ExpectedRecord(NItems[i], FirstPresent)

\* C9 as amended: each field is the first TRUTHY value among its aliases in
\* the fixed order (a present but falsy value such as "", 0 or null is passed
\* over), the default being used when no alias holds a truthy value; the
\* output holds, in order, the records of the elements whose amount is not NaN.
C9_FirstTruthyAlias ==
    NReturned =>
        LET kept == KeptIndices(NItems)
        IN  /\ Len(nResult.records) = Len(kept)
            /\ \A j \in 1..Len(kept) :
                  nResult.records[j] = ExpectedRecord(NItems[kept[j]], FirstTruthy)

\* C9 witness: the element {account:"A", value:5} gives customer "A", amount 5.
C9_Witness ==
    /\ NReturned
    /\ nData = Arr(<<Obj([account |-> Str("A"), value |-> Num(5)])>>)
    /\ Len(nResult.records) = 1
    /\ nResult.records[1].customer = Str("A")
    /\ nResult.records[1].amount = Num(5)

---------------------------------------------------------------------------
(* Configuration: lines 18-28 *)

openaiClient == env.OPENAI_API_KEY

supabaseServiceClient == env.SUPABASE_URL /\ env.SUPABASE_SERVICE_ROLE_KEY

supabaseReadClient ==
    env.SUPABASE_URL /\ (env.SUPABASE_ANON_KEY \/ env.SUPABASE_SERVICE_ROLE_KEY)

Environments ==
    [OPENAI_API_KEY : BOOLEAN, SUPABASE_URL : BOOLEAN,
     SUPABASE_SERVICE_ROLE_KEY : BOOLEAN, SUPABASE_ANON_KEY : BOOLEAN]

---------------------------------------------------------------------------
(* buildPrompt and runOpenAIAnalysis *)

\* Lines 129-133 and 143: focus[analysisType] || 'General sales insights.'
\* (focus is an object literal, so it inherits the keys of Object.prototype).
FocusOf(analysisType) ==
    LET k == StringOf(analysisType)
    IN  CASE k = "trends" ->
                "Identify demand trends, seasonality, and drivers across customers and brands."
          [] k = "pipeline" ->
                "Predict pipeline milestones, risks, and likely close timelines with confidence levels."
          [] k = "communications" ->
                "Draft succinct client-ready communication bullets and recommendations based on the data."
          [] k \in DOMAIN ObjectPrototypeFunctions -> StringOf(ObjectPrototypeFunctions[k])
          [] OTHER -> "General sales insights."

\* Lines 128-151.
buildPrompt(analysisType, filters) ==
    LET fs == filterSummary(filters, "; ")
    IN  "You are a senior sales operations analyst. Use the sales data below to summarize insights.\n\n"
        \o "Context filters: " \o (IF fs # "" THEN fs ELSE "none provided") \o "\n"
        \o "Required focuses: " \o FocusOf(analysisType) \o "\n\n"
        \o "Deliver three sections:\n1) Trend Highlights (bullets)\n"
        \o "2) Pipeline Outlook (probable milestones, risks, next best actions)\n"
        \o "3) Draft Communications (short, actionable notes for stakeholders)\n\n"
        \o "Use concise bullets and include numeric references when available. "
        \o "If data is sparse, state assumptions."

\* Lines 156-170: the request; the user message is the prompt followed by the
\* sales data text.
ChatRequest(rawSalesText, analysisType, filters) ==
    [prompt |-> buildPrompt(analysisType, filters), salesData |-> rawSalesText]

\* What the provider call can give: a completion whose first choice has
\* content, one without content, or a thrown error, with or without a message.
AIResolved(content) == [kind |-> "resolved", content |-> content]
AIRejected(message) == [kind |-> "rejected", message |-> message]
NoOutcome == [kind |-> "none"]

AIOutcomes ==
    { AIResolved(Str("  1) Trend Highlights: Y leads.  ")), AIResolved(Undefined),
      AIRejected("401 Incorrect API key provided: sk-secret"),
      AIRejected("Connection error."), AIRejected("") }

\* Line 172: completion.choices[0]?.message?.content?.trim()
Trim(text) == IF text = "  1) Trend Highlights: Y leads.  " THEN "1) Trend Highlights: Y leads." ELSE text

ResultOf(outcome) ==
    IF outcome.content.t = "string" THEN Str(Trim(outcome.content.s)) ELSE Undefined

---------------------------------------------------------------------------
(* logAnalysis *)

PreviewLimit == 500

\* resultPreview?.slice(0, 500)
Slice(v) ==
    IF v.t # "string" THEN Undefined
    ELSE IF Len(v.s) > PreviewLimit THEN Str(SubSeq(v.s, 1, PreviewLimit)) ELSE v

\* Lines 179-185: the row given to insert.
LogRow(args) ==
    [analysis_type |-> args.analysisType, filters |-> args.filters,
     result_preview |-> Or(Slice(args.resultPreview), Str("")),
     succeeded |-> args.succeeded, error_message |-> Or(args.errorMessage, Null)]

\* What the datastore can do with the insert: store the row, answer with an
\* error object, or throw (reject).  Without a client nothing is inserted.
InsertOutcomes == IF supabaseServiceClient THEN {"inserted", "errorResult", "throws"} ELSE {"noClient"}

\* Lines 175-189: how the call of logAnalysis ends for the caller awaiting it.
\* The insert is inside try/catch, so a throw is warned about and not raised.
\* First two faulty variants: one without the try/catch, one that raises the
\* error the datastore answers with.
logAnalysisUncaught(insertOutcome) == IF insertOutcome = "throws" THEN "threw" ELSE "returned"

logAnalysisRaisesError(insertOutcome) ==
    IF insertOutcome = "errorResult" THEN "threw" ELSE "returned"

logAnalysis(insertOutcome) == "returned"

---------------------------------------------------------------------------
(* POST /api/analyze: lines 235-282 *)

Response(status, json) == [status |-> status, json |-> json]

MissingResponse == Response(400, [error |-> "Missing salesData payload."])

FallbackResponse(text) ==
    Response(503, [error |-> "AI provider is not configured. Add OPENAI_API_KEY to enable insights.",
                   data |-> text])

\* res.json({ result }): 200.
SuccessResponse(result) == Response(200, [result |-> result])

\* Line 280.  First the faulty variant that puts the error's message in the
\* response.
FailureResponseWithDetail(message) == Response(500, [error |-> message])

FailureResponse(message) ==
    Response(500, [error |-> "Failed to analyze data. Please try again later."])

\* Line 236: the defaults of the destructuring apply to undefined only.
AnalysisTypeOf(b) == IF b.analysisType.t = "undefined" THEN Str("trends") ELSE b.analysisType
FiltersIn(b) == IF b.filters.t = "undefined" THEN FiltersOf(<<>>) ELSE b.filters

LogArgs(b, preview, succeeded, errorMessage) ==
    [analysisType |-> AnalysisTypeOf(b), filters |-> FiltersIn(b), resultPreview |-> preview,
     succeeded |-> succeeded, errorMessage |-> errorMessage]

\* Line 243.
RawSalesText(raw, salesData) == IF RawIsEmpty(raw) THEN JSONstringify(salesData) ELSE raw

Finished == pc \in {"done", "rejected"}

\* What is remembered of a finished request.
Outcome == [body |-> body, ai |-> aiOutcome, log |-> logOutcome, sent |-> sent, pc |-> pc]
NoPrev == [pc |-> "none"]

\* The handler from its entry to its first await (or to its return).
Analyze(b) ==
    /\ pc = "idle" \/ Finished
    /\ prev' = IF Finished THEN Outcome ELSE prev
    /\ body' = b
    /\ aiOutcome' = NoOutcome
    /\ logOutcome' = "none"
    /\ logRows' = <<>>
    /\ IF ~Truthy(b.salesData)
       THEN /\ sent' = <<MissingResponse>>
            /\ pc' = "done"
            /\ summary' = "" /\ aiRequest' = Undefined /\ logCalls' = <<>>
       ELSE LET n == normalizeRecords(b.salesData)
            IN  IF n.threw
                THEN \* the TypeError leaves the async handler: no response, no log
                     /\ sent' = <<>>
                     /\ pc' = "rejected"
                     /\ summary' = "" /\ aiRequest' = Undefined /\ logCalls' = <<>>
                ELSE IF ~openaiClient
                THEN LET text == summarizeLocally(n.records, FiltersIn(b))
                     IN  /\ summary' = text
                         /\ logCalls' = <<LogArgs(b, Str(text), TRUE, Undefined)>>
                         /\ pc' = "awaitLog503"
                         /\ sent' = <<>> /\ aiRequest' = Undefined
                ELSE /\ aiRequest' = ChatRequest(RawSalesText(n.raw, b.salesData),
                                                 AnalysisTypeOf(b), FiltersIn(b))
                     /\ pc' = "awaitAI"
                     /\ sent' = <<>> /\ summary' = "" /\ logCalls' = <<>>

\* Lines 261-269: the provider call resolves; the response goes out, then the
\* log write is started and awaited.
AISucceeds(o) ==
    /\ pc = "awaitAI"
    /\ o.kind = "resolved"
    /\ aiOutcome' = o
    /\ sent' = Append(sent, SuccessResponse(ResultOf(o)))
    /\ logCalls' = Append(logCalls, LogArgs(body, ResultOf(o), TRUE, Undefined))
    /\ pc' = "awaitLog200"
    /\ UNCHANGED <<body, summary, aiRequest, logOutcome, logRows, prev>>

\* Lines 270-278: the provider call throws; the catch block starts the log
\* write of the failure and awaits it.
AIFails(o) ==
    /\ pc = "awaitAI"
    /\ o.kind = "rejected"
    /\ aiOutcome' = o
    /\ logCalls' = Append(logCalls,
                          LogArgs(body, Str(""), FALSE,
                                  Or(Str(o.message), Str("Failed to analyze data"))))
    /\ pc' = "awaitLog500"
    /\ UNCHANGED <<body, summary, aiRequest, logOutcome, logRows, sent, prev>>

\* The awaited logAnalysis call ends, the datastore having done io with the
\* insert, and the handler runs on to its end or to its next await.
LogSettles(io) ==
    /\ pc \in {"awaitLog503", "awaitLog200", "awaitLog500"}
    /\ io \in InsertOutcomes
    /\ logOutcome' = io
    /\ logRows' = IF io = "inserted" THEN Append(logRows, LogRow(logCalls[Len(logCalls)]))
                  ELSE logRows
    /\ IF logAnalysis(io) = "returned"
       THEN CASE pc = "awaitLog503" ->
                    /\ sent' = Append(sent, FallbackResponse(summary))
                    /\ pc' = "done"
                    /\ UNCHANGED logCalls
              [] pc = "awaitLog200" ->
                    /\ pc' = "done"
                    /\ UNCHANGED <<sent, logCalls>>
              [] pc = "awaitLog500" ->
                    \* res.status(500).json(...); it throws if a response is out
                    /\ sent' = Append(sent, FailureResponse(aiOutcome.message))
                    /\ pc' = IF sent = <<>> THEN "done" ELSE "rejected"
                    /\ UNCHANGED logCalls
       ELSE CASE pc = "awaitLog200" ->
                    \* a throw inside the try block (line 264) enters the catch
                    /\ logCalls' = Append(logCalls,
                                          LogArgs(body, Str(""), FALSE, Str("insert failed")))
                    /\ pc' = "awaitLog500"
                    /\ UNCHANGED sent
              [] OTHER ->
                    \* a throw outside the try block leaves the handler
                    /\ pc' = "rejected"
                    /\ UNCHANGED <<sent, logCalls>>
    /\ UNCHANGED <<body, summary, aiRequest, aiOutcome, prev>>

\* Request bodies.
Body(d, a, f) == [salesData |-> d, analysisType |-> a, filters |-> f]

ExampleList ==
    Arr(<<Obj([customer |-> Str("X"), amount |-> Num(100)]),
          Obj([customer |-> Str("Y"), amount |-> Num(300)])>>)

CustomerFilter == FiltersOf(<<<<"customer", Str("X")>>, <<"season", Str("")>>>>)

AnalyzeBodies ==
    { Body(d, Undefined, Undefined) :
        d \in { Undefined, Str(""), Str("not json"), Str("[{\"account\":\"A\",\"value\":5}]"),
                Str("[null]"), ExampleList, Arr(<<Null>>),
                Obj([customer |-> Str("X"), amount |-> Num(100)]) } }
      \cup { Body(d, Str("pipeline"), CustomerFilter) : d \in { Undefined, Str("not json"), ExampleList } }

AInit ==
    /\ pc = "idle"
    /\ body = Body(Undefined, Undefined, Undefined)
    /\ summary = ""
    /\ aiRequest = Undefined
    /\ aiOutcome = NoOutcome
    /\ logCalls = <<>>
    /\ logOutcome = "none"
    /\ logRows = <<>>
    /\ sent = <<>>
    /\ prev = NoPrev

---------------------------------------------------------------------------
(* formatContexts, fetchContextsFromSupabase and GET /api/contexts *)

\* Line 192: Array.from(new Set(list.filter(Boolean))): the truthy values, each
\* once, in the order of their first occurrence.
RECURSIVE Unique(_, _)
Unique(seen, list) ==
    IF list = <<>> THEN seen
    ELSE IF Truthy(Head(list)) /\ ~\E i \in 1..Len(seen) : seen[i] = Head(list)
         THEN Unique(Append(seen, Head(list)), Tail(list))
         ELSE Unique(seen, Tail(list))

\* Lines 191-198.
formatContexts(records) ==
    [customers |-> Unique(<<>>, [i \in 1..Len(records) |-> Get(records[i], "customer")]),
     brands    |-> Unique(<<>>, [i \in 1..Len(records) |-> Get(records[i], "brand")]),
     seasons   |-> Unique(<<>>, [i \in 1..Len(records) |-> Get(records[i], "season")])]

\* Lines 217-223 (the three fields formatContexts reads, and the amount).
SampleRecord(c, b, s, a) ==
    Obj([customer |-> Str(c), brand |-> Str(b), season |-> Str(s), amount |-> Num(a)])

sampleRecords ==
    << SampleRecord("Northwind Outfitters", "ActiveLife", "Spring", 185000),
       SampleRecord("Summit Stores", "ActiveLife", "Summer", 220000),
       SampleRecord("Harbor Co-op", "UrbanFlex", "Holiday", 310000),
       SampleRecord("Northwind Outfitters", "UrbanFlex", "Holiday", 95000),
       SampleRecord("Metro Sports", "TrailWorks", "Spring", 140000) >>

\* What the datastore read can give: { data, error } or a throw.
FetchResult(data, error) == [kind |-> "result", data |-> data, error |-> error]
FetchThrows == [kind |-> "throws"]
NoFetch == [kind |-> "none"]

\* Lines 203-214, given what the awaited read gave: the contexts, or null
\* (FALSE in ok) when the read answered with an error or threw.  First the
\* faulty variant without line 209, the check of error.
fetchIgnoringError(f) ==
    IF f.kind = "throws" THEN [ok |-> FALSE]
    ELSE [ok |-> TRUE, contexts |-> formatContexts(IF Truthy(f.data) THEN f.data.items ELSE <<>>)]

fetchContextsFromSupabase(f) ==
    IF f.kind = "throws" THEN [ok |-> FALSE]
    ELSE IF Truthy(f.error) THEN [ok |-> FALSE]
    ELSE [ok |-> TRUE, contexts |-> formatContexts(IF Truthy(f.data) THEN f.data.items ELSE <<>>)]

ContextsResponse(source, c) ==
    [source |-> source, customers |-> c.customers, brands |-> c.brands, seasons |-> c.seasons]

COutcome == [fetch |-> cFetch, sent |-> cSent, pc |-> cPc]

\* Lines 225-233 up to the await of the read.  Without a read client the
\* fetch returns null at once and the sample lists are sent.
Contexts ==
    /\ cPc \in {"idle", "done"}
    /\ cPrev' = IF cPc = "done" THEN COutcome ELSE cPrev
    /\ cFetch' = NoFetch
    /\ IF supabaseReadClient
       THEN /\ cPc' = "awaitFetch"
            /\ cSent' = <<>>
       ELSE /\ cPc' = "done"
            /\ cSent' = <<ContextsResponse("sample", formatContexts(sampleRecords))>>

\* The read settles and the handler answers.
FetchSettles(f) ==
    /\ cPc = "awaitFetch"
    /\ cFetch' = f
    /\ cSent' = IF fetchContextsFromSupabase(f).ok
                THEN Append(cSent, ContextsResponse("supabase", fetchContextsFromSupabase(f).contexts))
                ELSE Append(cSent, ContextsResponse("sample", formatContexts(sampleRecords)))
    /\ cPc' = "done"
    /\ UNCHANGED cPrev

MaxRows == 2

\* Rows of sales_records as the projection customer, brand, season gives them;
\* a column can be null or empty.
ContextRows ==
    { Obj([customer |-> Str("A"), brand |-> Str("B1"), season |-> Str("Spring")]),
      Obj([customer |-> Str("A"), brand |-> Str("B2"), season |-> Null]),
      Obj([customer |-> Str("C"), brand |-> Str("B1"), season |-> Str("Fall")]),
      Obj([customer |-> Null, brand |-> Str(""), season |-> Str("Spring")]) }

FetchOutcomes ==
    { FetchResult(Arr(rows), Null) : rows \in UNION { [1..n -> ContextRows] : n \in 0..MaxRows } }
      \cup { FetchResult(Null, Null),
             FetchResult(Null, Obj([message |-> Str("permission denied for table sales_records")])),
             FetchThrows }

CInit ==
    /\ cPc = "idle"
    /\ cFetch = NoFetch
    /\ cSent = <<>>
    /\ cPrev = [pc |-> "none"]

---------------------------------------------------------------------------
(* Specifications *)

vars == <<nData, nResult, nPc, sRecords, sFilters, sResult, sPc, env, pc, body, summary,
          aiRequest, aiOutcome, logCalls, logOutcome, logRows, sent, prev,
          cPc, cFetch, cSent, cPrev>>

NoEnvironment ==
    [OPENAI_API_KEY |-> FALSE, SUPABASE_URL |-> FALSE,
     SUPABASE_SERVICE_ROLE_KEY |-> FALSE, SUPABASE_ANON_KEY |-> FALSE]

\* Calls of normalizeRecords on the inputs above.
InitNormalize == NInit /\ SOff /\ AInit /\ CInit /\ env = NoEnvironment

NextNormalize == NCall /\ UNCHANGED <<svars, avars, cvars, env>>

SpecNormalize == InitNormalize /\ [][NextNormalize]_vars

\* Calls of summarizeLocally on the inputs above.
InitSummarize == SInit /\ NOff /\ AInit /\ CInit /\ env = NoEnvironment

NextSummarize == SCall /\ UNCHANGED <<nvars, avars, cvars, env>>

SpecSummarize == InitSummarize /\ [][NextSummarize]_vars

\* The server handling POST /api/analyze requests one after the other.
Init == NOff /\ SOff /\ AInit /\ CInit /\ env \in Environments

Next ==
    \/ \E b \in AnalyzeBodies : Analyze(b) /\ UNCHANGED <<nvars, svars, cvars, env>>
    \/ \E o \in AIOutcomes : AISucceeds(o) /\ UNCHANGED <<nvars, svars, cvars, env>>
    \/ \E o \in AIOutcomes : AIFails(o) /\ UNCHANGED <<nvars, svars, cvars, env>>
    \/ \E io \in {"inserted", "errorResult", "throws", "noClient"} :
          LogSettles(io) /\ UNCHANGED <<nvars, svars, cvars, env>>

Spec == Init /\ [][Next]_vars

\* The server handling GET /api/contexts requests one after the other.
CNext ==
    \/ Contexts /\ UNCHANGED <<nvars, svars, avars, env>>
    \/ \E f \in FetchOutcomes : FetchSettles(f) /\ UNCHANGED <<nvars, svars, avars, env>>

SpecContexts == Init /\ [][CNext]_vars

---------------------------------------------------------------------------
(* Properties of POST /api/analyze *)

GenericFailure == Response(500, [error |-> "Failed to analyze data. Please try again later."])

\* C1: a finished invocation with a truthy salesData has made exactly one
\* call of logAnalysis, on each path, and one with a missing or falsy
\* salesData has made none.
C1_OneLogCallPerAnalysis ==
    Finished => Len(logCalls) = (IF Truthy(body.salesData) THEN 1 ELSE 0)

\* C2: a finished invocation has sent one response, decided by the payload and
\* the provider: 400 for a missing or falsy salesData; otherwise 503 with an
\* error and, as data, the local summary of the normalized records of the
\* payload when there is no AI client; 200 with the result when the call
\* succeeded; 500 with an error when it threw.
C2_StatusByPayloadAndProvider ==
    Finished =>
        /\ Len(sent) = 1
        /\ IF ~Truthy(body.salesData)
           THEN sent[1].status = 400 /\ DOMAIN sent[1].json = {"error"}
           ELSE IF ~openaiClient
           THEN /\ sent[1].status = 503
                /\ DOMAIN sent[1].json = {"error", "data"}
                /\ sent[1].json.data =
                      summarizeLocally(normalizeRecords(body.salesData).records, FiltersIn(body))
           ELSE IF aiOutcome.kind = "resolved"
           THEN sent[1].status = 200 /\ sent[1].json = [result |-> ResultOf(aiOutcome)]
           ELSE sent[1].status = 500 /\ DOMAIN sent[1].json = {"error"}

\* C5: the log write never affects the response.  While the log write of the
\* AI-success path is awaited the 200 response is already out; a write that
\* fails (an error answer or a throw) is not raised, the handler ends normally
\* with its one response; and two invocations with the same body and the same
\* provider outcome have the same responses whatever the datastore did.
C5_LogNeverAffectsResponse ==
    /\ pc = "awaitLog200" => sent = <<SuccessResponse(ResultOf(aiOutcome))>>
    /\ (Finished /\ logOutcome \in {"errorResult", "throws"}) => (pc = "done" /\ Len(sent) = 1)
    /\ (Finished /\ prev.pc # "none") =>
          ((prev.body = body /\ prev.ai = aiOutcome) => prev.sent = sent)

\* C5 witness: the same request twice with the same provider answer; the first
\* log write was stored, the second threw, and both got the same 200 response.
C5_Witness ==
    /\ pc = "done"
    /\ prev.pc = "done"
    /\ prev.body = body
    /\ prev.ai = aiOutcome
    /\ aiOutcome.kind = "resolved"
    /\ prev.log = "inserted"
    /\ logOutcome = "throws"
    /\ Len(sent) = 1
    /\ sent[1].status = 200
    /\ prev.sent = sent

\* C6: when the provider call throws, the response is the fixed generic 500
\* message whatever the error; the error message goes to the one logAnalysis
\* call, made with succeeded = false (the fixed text 'Failed to analyze data'
\* standing in when the error has no message), and to the row inserted; two
\* invocations with the same body whose provider errors differ have the same
\* responses.
C6_GenericFailureResponse ==
    (Finished /\ aiOutcome.kind = "rejected") =>
        /\ sent = <<GenericFailure>>
        /\ Len(logCalls) = 1
        /\ logCalls[1].succeeded = FALSE
        /\ logCalls[1].errorMessage =
              Str(IF aiOutcome.message # "" THEN aiOutcome.message ELSE "Failed to analyze data")
        /\ logOutcome = "inserted" =>
              /\ Len(logRows) = 1
              /\ logRows[1].succeeded = FALSE
              /\ logRows[1].error_message = logCalls[1].errorMessage
        /\ (prev.pc # "none" /\ prev.ai.kind = "rejected" /\ prev.body = body) => prev.sent = sent

\* C6 witness: the same request twice, the provider failing with two different
\* messages; the responses are equal and the row holds the second message.
C6_Witness ==
    /\ pc = "done"
    /\ prev.pc = "done"
    /\ prev.body = body
    /\ prev.ai = AIRejected("Connection error.")
    /\ aiOutcome = AIRejected("401 Incorrect API key provided: sk-secret")
    /\ prev.sent = sent
    /\ sent = <<GenericFailure>>
    /\ logOutcome = "inserted"
    /\ logRows[1].error_message = Str("401 Incorrect API key provided: sk-secret")

\* C10: no invocation sends, or tries to send, more than one response, and the
\* catch branch (its log write and its 500 response) is never entered once
\* the 200 response is out.
C10_AtMostOneResponse ==
    /\ Len(sent) <= 1
    /\ pc = "awaitLog500" => sent = <<>>
    /\ (\E i \in 1..Len(sent) : sent[i].status = 200) =>
          \A i \in 1..Len(logCalls) : logCalls[i].succeeded

\* C10 witness: the provider call succeeded, the 200 response went out, the
\* insert of the log write threw, and the handler ended with that one response.
C10_Witness ==
    /\ pc = "done"
    /\ aiOutcome.kind = "resolved"
    /\ logOutcome = "throws"
    /\ Len(sent) = 1
    /\ sent[1].status = 200
    /\ Len(logCalls) = 1

---------------------------------------------------------------------------
(* Properties of GET /api/contexts *)

SampleLists ==
    [customers |-> <<Str("Northwind Outfitters"), Str("Summit Stores"), Str("Harbor Co-op"),
                     Str("Metro Sports")>>,
     brands    |-> <<Str("ActiveLife"), Str("UrbanFlex"), Str("TrailWorks")>>,
     seasons   |-> <<Str("Spring"), Str("Summer"), Str("Holiday")>>]

\* list holds the truthy values of the column, each once, in the order of
\* their first occurrence in rows.
FormatsColumn(list, rows, column) ==
    /\ \A i, j \in 1..Len(list) : i # j => list[i] # list[j]
    /\ \A i \in 1..Len(list) :
          Truthy(list[i]) /\ \E r \in 1..Len(rows) : Get(rows[r], column) = list[i]
    /\ \A r \in 1..Len(rows) :
          Truthy(Get(rows[r], column)) => \E i \in 1..Len(list) : list[i] = Get(rows[r], column)
    /\ \A i, j \in 1..Len(list) :
          i < j => (CHOOSE r \in 1..Len(rows) :
                        /\ Get(rows[r], column) = list[i]
                        /\ \A q \in 1..(r - 1) : Get(rows[q], column) # list[i])
                   < (CHOOSE r \in 1..Len(rows) :
                        /\ Get(rows[r], column) = list[j]
                        /\ \A q \in 1..(r - 1) : Get(rows[q], column) # list[j])

FetchedWithoutError ==
    supabaseReadClient /\ cFetch.kind = "result" /\ ~Truthy(cFetch.error)

\* C7: a finished request has one response, which names its source: "supabase"
\* with the formatted rows exactly when a read client is configured and the
\* read returned without error, "sample" with the three fixed lists of the
\* built-in records in every other case, so that two requests against an
\* unavailable store have the same response.
C7_ContextsSource ==
    cPc = "done" =>
        /\ Len(cSent) = 1
        /\ cSent[1].source \in {"supabase", "sample"}
        /\ cSent[1].source = "supabase" <=> FetchedWithoutError
        /\ cSent[1].source = "supabase" =>
              LET rows == IF Truthy(cFetch.data) THEN cFetch.data.items ELSE <<>>
              IN  /\ FormatsColumn(cSent[1].customers, rows, "customer")
                  /\ FormatsColumn(cSent[1].brands, rows, "brand")
                  /\ FormatsColumn(cSent[1].seasons, rows, "season")
        /\ cSent[1].source = "sample" =>
              cSent[1] = ContextsResponse("sample", SampleLists)
        /\ (cPrev.pc = "done" /\ cPrev.sent[1].source = "sample" /\ cSent[1].source = "sample")
              => cPrev.sent = cSent

\* C7 witness: two requests against a store that fails, once by answering with
\* an error and once by throwing; both are answered from the sample records.
C7_Witness ==
    /\ cPc = "done"
    /\ supabaseReadClient
    /\ cPrev.pc = "done"
    /\ cPrev.fetch.kind = "result" /\ Truthy(cPrev.fetch.error)
    /\ cFetch.kind = "throws"
    /\ cSent[1].source = "sample"
    /\ cSent[1].customers = SampleLists.customers
    /\ cPrev.sent = cSent

=============================================================================
